---------------------------- MODULE Spec2Model ----------------------------
(***************************************************************************)
(* Partition lifecycle manager of benchmark-postgres-partition (main.go).  *)
(*                                                                         *)
(* The model covers the Logic type: the child-table namer, the DDL that    *)
(* creates one child table per day, the sync.Map existence cache, the      *)
(* insertion strategies and the two point fetches, together with the part  *)
(* of the PostgreSQL backend those calls are answered by (the catalog of   *)
(* child tables with their list bounds, and the rows of both tables).      *)
(*                                                                         *)
(* A time.Time value is modelled by its civil fields in its own zone and   *)
(* the zone offset: [y, m, d, sec, off], sec the second of the local day   *)
(* and off the offset east of UTC in seconds.                              *)
(***************************************************************************)
EXTENDS Integers, Sequences, FiniteSets, TLC

(***************************************************************************)
(* Bounds of the model.                                                    *)
(***************************************************************************)
\* number of concurrent callers (goroutines serving requests)
NumProcs == 2
\* total number of Logic calls started in one behaviour
MaxCalls == 2

Procs == 1..NumProcs

(***************************************************************************)
(* Calendar arithmetic of package time, as used by Time.UTC, Time.Year,    *)
(* Time.Month, Time.Day and time.Date (proleptic Gregorian calendar).      *)
(***************************************************************************)
IsLeap(y) == (y % 4 = 0) /\ ((y % 100 # 0) \/ (y % 400 = 0))

DaysInYear(y) == IF IsLeap(y) THEN 366 ELSE 365

DaysIn(y, m) ==
    IF m = 2 THEN (IF IsLeap(y) THEN 29 ELSE 28)
    ELSE IF m \in {4, 6, 9, 11} THEN 30 ELSE 31

LeapsBefore(y) == ((y - 1) \div 4) - ((y - 1) \div 100) + ((y - 1) \div 400)

\* days from 1970-01-01 to the first day of year y
DaysBeforeYear(y) == 365 * (y - 1970) + LeapsBefore(y) - LeapsBefore(1970)

RECURSIVE DaysBeforeMonth(_, _)
DaysBeforeMonth(y, m) ==
    IF m = 1 THEN 0 ELSE DaysBeforeMonth(y, m - 1) + DaysIn(y, m - 1)

\* days from 1970-01-01 to the civil date y-m-d
DaysFromCivil(y, m, d) == DaysBeforeYear(y) + DaysBeforeMonth(y, m) + d - 1

\* the instant of t in seconds since 1970-01-01T00:00:00Z
Unix(t) == DaysFromCivil(t.y, t.m, t.d) * 86400 + t.sec - t.off

RECURSIVE YearStep(_, _)
YearStep(y, n) ==
    IF n < DaysInYear(y) THEN <<y, n>> ELSE YearStep(y + 1, n - DaysInYear(y))

RECURSIVE MonthStep(_, _, _)
MonthStep(y, m, n) ==
    IF n < DaysIn(y, m) THEN <<y, m, n + 1>>
    ELSE MonthStep(y, m + 1, n - DaysIn(y, m))

\* the civil date <<y, m, d>> of day number n (days since 1970-01-01); no
\* year has more than 366 days, so the year is not before 1970 + n / 366
CivilFromDays(n) ==
    LET y0 == 1970 + (n \div 366)
        yn == YearStep(y0, n - DaysBeforeYear(y0))
    IN  MonthStep(yn[1], 1, yn[2])

\* t.UTC(): the same instant with its civil fields taken in UTC
UTCKeepZone(t) == t

UTC(t) ==
    LET u   == Unix(t)
        ymd == CivilFromDays(u \div 86400)
    IN  [y |-> ymd[1], m |-> ymd[2], d |-> ymd[3], sec |-> u % 86400, off |-> 0]

(***************************************************************************)
(* Formatting.                                                             *)
(***************************************************************************)
Digits == <<"0", "1", "2", "3", "4", "5", "6", "7", "8", "9">>

Digit(k) == Digits[k + 1]

\* Format("01"), Format("02"): two digits, zero padded
Pad2(n) == Digit((n \div 10) % 10) \o Digit(n % 10)

\* Format("2006"): four digits, zero padded
Pad4(n) == Digit((n \div 1000) % 10) \o Digit((n \div 100) % 10) \o Pad2(n)

\* decimal text without padding (PostgreSQL's integer-to-text cast)
RECURSIVE Decimal(_)
Decimal(n) == IF n < 10 THEN Digit(n) ELSE Decimal(n \div 10) \o Digit(n % 10)

(***************************************************************************)
(* Logic.ChildTableName                                                    *)
(***************************************************************************)
ChildTableNameMonthly(currentTime) ==
    LET u == UTC(currentTime)
    IN  "transaction_partition_y" \o Pad4(u.y) \o "_m" \o Pad2(u.m) \o "_d01"

ChildTableName(currentTime) ==
    LET u          == UTC(currentTime)
        currentDay == [y |-> u.y, m |-> u.m, d |-> u.d, sec |-> 0, off |-> 0]
        year       == Pad4(currentDay.y)
        month      == Pad2(currentDay.m)
        day        == Pad2(currentDay.d)
    IN  "transaction_partition_y" \o year \o "_m" \o month \o "_d" \o day

\* the sync.Map key of InsertTransactionPartitionedDynamicCached
CacheKeyPerSecond(t) == "isExist:" \o ChildTableName(t) \o "_" \o Decimal(t.sec)

\* a key that names the year and not the day
CacheKeyPerYear(t) == "isExist:" \o Pad4(UTC(t).y)

CacheKey(t) == "isExist:" \o ChildTableName(t)

(***************************************************************************)
(* Values crossing to the backend.  PostgreSQL's date input reads the date *)
(* fields of a timestamp text and ignores its time of day and its zone.    *)
(***************************************************************************)
PgDateIn(text) == <<text.y, text.m, text.d>>

\* the bound taken from currentTime as written, without UTC()
BoundOfAsWritten(currentTime) == PgDateIn(currentTime)

\* currentTime.UTC().Format(time.RFC3339Nano), read as the DATE list bound
BoundOf(currentTime) == PgDateIn(UTC(currentTime))

\* a time.Time query argument: the driver sends the civil fields of the
\* value in its own zone with the offset appended; read as a DATE
DateParam(t) == PgDateIn(t)


(***************************************************************************)
(* Inputs.                                                                 *)
(***************************************************************************)
Time(y, m, d, sec, off) == [y |-> y, m |-> m, d |-> d, sec |-> sec, off |-> off]

\* the zero time.Time
ZeroTime == Time(1, 1, 1, 0, 0)

\* TrxDate values the callers send: the last second of 2021-06-30 UTC, the
\* first second of 2021-07-01 UTC, and 03:00 of 2021-07-01 at +07:00 (an
\* instant of 2021-06-30 UTC)
TrxTimes ==
    { Time(2021, 6, 30, 86399, 0),
      Time(2021, 7, 1, 0, 0),
      Time(2021, 7, 1, 10800, 25200) }

IDs == {"A"}

FetchIDs == {"A", "nope"}

\* the UTC calendar day of t, as a day number
DayOf(t) == Unix(t) \div 86400

Days == {DayOf(t) : t \in TrxTimes}

\* inputs of the namer: days around a month end, a year end and a leap day,
\* at the start, inside and at the last second of the day, in three zones
NameDates == {<<2020, 2, 29>>, <<2020, 12, 31>>, <<2021, 1, 1>>,
              <<2021, 6, 30>>, <<2021, 7, 1>>}

NameSecs == {0, 10800, 86399}

NameOffsets == {-18000, 0, 25200}

NameTimes ==
    {Time(c[1], c[2], c[3], s, o) : c \in NameDates, s \in NameSecs, o \in NameOffsets}

(***************************************************************************)
(* The Transaction struct and NewLog.                                      *)
(***************************************************************************)
ZeroTransaction ==
    [ID |-> "", UserID |-> "", Info |-> "", Status |-> "",
     TrxDate |-> ZeroTime, TrxTimestamp |-> ZeroTime]

NewLog(id, date) ==
    [ID |-> id, UserID |-> "1", Info |-> "{iteration}", Status |-> "SUCCESS",
     TrxDate |-> date, TrxTimestamp |-> date]

\* the row the INSERT statement writes for trx
RowOf(r) ==
    [id |-> r.ID, user_id |-> r.UserID, info |-> r.Info, status |-> r.Status,
     trx_date |-> DateParam(r.TrxDate), trx_timestamp |-> Unix(r.TrxTimestamp)]

\* res.Scan of a returned row: a DATE comes back as midnight UTC of the day
ScanRow(row) ==
    [ID |-> row.id, UserID |-> row.user_id, Info |-> row.info,
     Status |-> row.status,
     TrxDate |-> Time(row.trx_date[1], row.trx_date[2], row.trx_date[3], 0, 0),
     TrxTimestamp |->
        LET c == CivilFromDays(row.trx_timestamp \div 86400)
        IN  Time(c[1], c[2], c[3], row.trx_timestamp % 86400, 0)]

NoArg == [id |-> "", userID |-> "", date |-> ZeroTime, name |-> ""]

(***************************************************************************)
(* State.                                                                  *)
(***************************************************************************)
VARIABLES
    tables,         \* backend catalog: the child tables, [name, bound]
    rowsPart,       \* rows of transactions_partitioned (over all children)
    rowsFlat,       \* rows of transactions
    childTableMap,  \* Logic.childTableMap: key -> stored value
    pc,             \* per caller: where its current call stands
    op,             \* per caller: the Logic method it is in
    arg,            \* per caller: the arguments of the call
    trx,            \* per caller: the *Transaction of the call
    err,            \* per caller: the error its call returned
    hist,           \* per caller: what its current call has done so far
    createCalls,    \* creation calls issued by the cached strategy
    doneOK,         \* days for which a cached insert has returned nil
    ncalls,         \* calls started so far
    namer           \* the namer applied to two timestamps

backend == <<tables, rowsPart, rowsFlat>>
caller  == <<pc, op, arg, trx, err>>
history == <<hist, createCalls, doneOK>>
vars    == <<tables, rowsPart, rowsFlat, childTableMap, pc, op, arg, trx, err,
             hist, createCalls, doneOK, ncalls, namer>>

SchemaErrors == {"schema_conn", "schema_exists", "schema_overlap"}
WriteErrors  == {"write_nopartition", "write_pk"}

\* after:    the call started after a cached insert for its day returned nil
\* pre:      a child table was bound to its day when the call started
\* stale:    when the call started the cache held its day's key and no child
\*           table was bound to that day
\* cut:      the caller's last call was cut by a crash after its creation
\*           call returned nil and before its INSERT
\* retry:    the call repeats the call that the crash cut, and no row is
\*           stored on the key of its record
\* held:     when the call reached the backend, the backend held what the
\*           call is about: a row on the key of the insert, a row matching
\*           the fetch, a relation of the name that is checked
\* created:  the outcome of the call's creation call, if it made one
\* stored:   the call has stored its key in the cache
\* inserted: the call has issued its INSERT
NoHist == [after |-> FALSE, pre |-> FALSE, stale |-> FALSE, cut |-> FALSE,
           retry |-> FALSE, held |-> FALSE, stored |-> FALSE,
           inserted |-> FALSE, created |-> "none"]

NoNamer == [t1 |-> ZeroTime, t2 |-> ZeroTime, n1 |-> "", n2 |-> "", called |-> FALSE]

Init ==
    /\ tables = {}
    /\ rowsPart = {}
    /\ rowsFlat = {}
    /\ childTableMap = [k \in {} |-> TRUE]
    /\ pc = [p \in Procs |-> "idle"]
    /\ op = [p \in Procs |-> "none"]
    /\ arg = [p \in Procs |-> NoArg]
    /\ trx = [p \in Procs |-> ZeroTransaction]
    /\ err = [p \in Procs |-> "nil"]
    /\ hist = [p \in Procs |-> NoHist]
    /\ createCalls = [all |-> [d \in Days |-> 0],
                      ok  |-> [p \in Procs |-> [d \in Days |-> 0]]]
    /\ doneOK = {}
    /\ ncalls = 0
    /\ namer = NoNamer

(***************************************************************************)
(* Backend: the catalog.                                                   *)
(***************************************************************************)
NameExists(name) == \E tb \in tables : tb.name = name

\* the child table the backend routes a row of this date to, if any
Routed(date) == {tb \in tables : tb.bound = date}

\* a Store that replaces the map by one that holds the key alone
StoreAlone(m, key) == [k \in {key} |-> TRUE]

\* the sync.Map after Store(key, TRUE)
StoreTrue(m, key) ==
    [k \in (DOMAIN m) \cup {key} |-> IF k = key THEN TRUE ELSE m[k]]

\* a Load that takes every key as known
CacheHitAlways(m, key) == TRUE

\* a Load that also asks the catalog for the table of the key
CacheHitChecked(m, key) ==
    /\ key \in DOMAIN m /\ m[key] = TRUE
    /\ \E tb \in tables : key = "isExist:" \o tb.name

\* Load(key) followed by the type assertion of lines 383-384
CacheHit(m, key) == key \in DOMAIN m /\ m[key] = TRUE

\* PRIMARY KEY ("id", "trx_date"): a row of the table has the key of row
PrimaryKeyOnIDAndTimestamp(rows, row) ==
    \E x \in rows : x.id = row.id /\ x.trx_timestamp = row.trx_timestamp

PrimaryKeyTaken(rows, row) ==
    \E x \in rows : x.id = row.id /\ x.trx_date = row.trx_date

\* for the history: the rows that carry the key (id, trx_date)
RowsOnKey(rows, id, date) == {x \in rows : <<x.id, x.trx_date>> = <<id, date>>}

(***************************************************************************)
(* A call starts.  Every call takes the caller from idle (or from the end  *)
(* of its previous call) into the method.                                  *)
(***************************************************************************)
CanStart(p) == pc[p] \in {"idle", "done"} /\ ncalls < MaxCalls

Enter(p, o, a, r, at, h) ==
    /\ pc' = [pc EXCEPT ![p] = at]
    /\ op' = [op EXCEPT ![p] = o]
    /\ arg' = [arg EXCEPT ![p] = a]
    /\ trx' = [trx EXCEPT ![p] = r]
    /\ err' = [err EXCEPT ![p] = "nil"]
    /\ hist' = [hist EXCEPT ![p] =
                  [h EXCEPT !.retry =
                      /\ hist[p].cut /\ op[p] = o /\ arg[p] = a /\ trx[p] = r
                      /\ RowsOnKey(rowsPart, r.ID, DateParam(r.TrxDate)) = {}]]
    /\ ncalls' = ncalls + 1

\* what the call knows of the backend when it starts (for the claims)
HistAt(t) ==
    [NoHist EXCEPT !.pre = (Routed(BoundOf(t)) # {}),
                   !.after = (DayOf(t) \in doneOK),
                   !.stale = /\ CacheKey(t) \in DOMAIN childTableMap
                             /\ childTableMap[CacheKey(t)] = TRUE
                             /\ Routed(BoundOf(t)) = {}]

\* a direct call of CreateNewPartitionChildTable(currentTime)
CreateNewPartitionChildTable(p, currentTime) ==
    /\ CanStart(p)
    /\ Enter(p, "create", [NoArg EXCEPT !.date = currentTime], ZeroTransaction,
             "ddl", HistAt(currentTime))
    /\ UNCHANGED <<backend, childTableMap, createCalls, doneOK, namer>>

\* InsertTransactionPartitionedDynamic(trx): create, then insert
InsertTransactionPartitionedDynamic(p, r) ==
    /\ CanStart(p)
    /\ Enter(p, "dynamic", [NoArg EXCEPT !.date = r.TrxDate], r, "ddl",
             HistAt(r.TrxDate))
    /\ UNCHANGED <<backend, childTableMap, createCalls, doneOK, namer>>

\* the cached insert that stores its key on the miss, ahead of the creation
InsertTransactionPartitionedDynamicCachedMarkFirst(p, r) ==
    /\ CanStart(p)
    /\ LET key == CacheKey(r.TrxDate)
           hit == CacheHit(childTableMap, key)
       IN  /\ Enter(p, "cached", [NoArg EXCEPT !.date = r.TrxDate], r,
                    IF hit THEN "insert" ELSE "ddl", HistAt(r.TrxDate))
           /\ createCalls' =
                 IF hit THEN createCalls
                 ELSE [createCalls EXCEPT !.all[DayOf(r.TrxDate)] = @ + 1]
           /\ childTableMap' = StoreTrue(childTableMap, key)
    /\ UNCHANGED <<backend, doneOK, namer>>

\* InsertTransactionPartitionedDynamicCached(trx), lines 378-390: the key,
\* the Load, and on a hit the insert, on a miss the creation call
InsertTransactionPartitionedDynamicCached(p, r) ==
    /\ CanStart(p)
    /\ LET key == CacheKey(r.TrxDate)
           hit == CacheHit(childTableMap, key)
       IN  /\ Enter(p, "cached", [NoArg EXCEPT !.date = r.TrxDate], r,
                    IF hit THEN "insert" ELSE "ddl", HistAt(r.TrxDate))
           /\ createCalls' =
                 IF hit THEN createCalls
                 ELSE [createCalls EXCEPT !.all[DayOf(r.TrxDate)] = @ + 1]
    /\ UNCHANGED <<backend, childTableMap, doneOK, namer>>

\* the insert that first creates the child table
InsertTransactionPartitionedCreating(p, r) ==
    /\ CanStart(p)
    /\ Enter(p, "insertPart", [NoArg EXCEPT !.date = r.TrxDate], r, "ddl",
             HistAt(r.TrxDate))
    /\ UNCHANGED <<backend, childTableMap, createCalls, doneOK, namer>>

\* a direct call of InsertTransactionPartitioned(trx)
InsertTransactionPartitioned(p, r) ==
    /\ CanStart(p)
    /\ Enter(p, "insertPart", [NoArg EXCEPT !.date = r.TrxDate], r, "insert",
             HistAt(r.TrxDate))
    /\ UNCHANGED <<backend, childTableMap, createCalls, doneOK, namer>>

(***************************************************************************)
(* CreateNewPartitionChildTable, line 305: the Exec of                     *)
(*   CREATE TABLE IF NOT EXISTS <name> PARTITION OF transactions_partitioned*)
(*   FOR VALUES IN ('<bound>')                                             *)
(* The backend answers it in two steps.  It first looks the name up: when  *)
(* a relation of that name is visible the statement ends with a notice and *)
(* no error.  Otherwise it goes on to define the relation, which takes the *)
(* parent's lock and fails when the name has been taken meanwhile or when  *)
(* the bound overlaps the bound of another child.                          *)
(***************************************************************************)
\* where the method goes once the creation call has returned e
AfterCreateErrIgnored(o, e) ==
    IF o = "create" THEN "done"
    ELSE IF o = "dynamic" THEN (IF e # "nil" THEN "done" ELSE "insert")
    ELSE "store"

AfterCreateNoStore(o, e) ==
    IF e # "nil" \/ o = "create" THEN "done" ELSE "insert"

AfterCreate(o, e) ==
    IF e # "nil" THEN "done"
    ELSE IF o = "create" THEN "done"
    ELSE IF o = "dynamic" THEN "insert"
    ELSE "store"

CreateReturns(p, e) ==
    /\ pc' = [pc EXCEPT ![p] = AfterCreate(op[p], e)]
    /\ err' = [err EXCEPT ![p] = e]
    /\ hist' = [hist EXCEPT ![p].created = IF e = "nil" THEN "ok" ELSE "failed"]
    /\ createCalls' =
          IF op[p] = "cached" /\ e = "nil"
          THEN [createCalls EXCEPT !.ok[p][DayOf(arg[p].date)] = @ + 1]
          ELSE createCalls

ExecCreateLookupPlainCreate(p) ==
    /\ pc[p] = "ddl"
    /\ \E fail \in BOOLEAN :
          IF fail THEN CreateReturns(p, "schema_conn")
          ELSE /\ pc' = [pc EXCEPT ![p] = "define"]
               /\ UNCHANGED <<err, hist, createCalls>>
    /\ UNCHANGED <<backend, childTableMap, op, arg, trx, doneOK, ncalls, namer>>

ExecCreateLookup(p) ==
    /\ pc[p] = "ddl"
    /\ \E fail \in BOOLEAN :
          IF fail THEN CreateReturns(p, "schema_conn")
          ELSE IF NameExists(ChildTableName(arg[p].date))
               THEN CreateReturns(p, "nil")
               ELSE /\ pc' = [pc EXCEPT ![p] = "define"]
                    /\ UNCHANGED <<err, hist, createCalls>>
    /\ UNCHANGED <<backend, childTableMap, op, arg, trx, doneOK, ncalls, namer>>

ExecCreateDefine(p) ==
    /\ pc[p] = "define"
    /\ LET name  == ChildTableName(arg[p].date)
           bound == BoundOf(arg[p].date)
       IN  IF NameExists(name)
           THEN /\ CreateReturns(p, "schema_exists")
                /\ UNCHANGED tables
           ELSE IF Routed(bound) # {}
           THEN /\ CreateReturns(p, "schema_overlap")
                /\ UNCHANGED tables
           ELSE /\ CreateReturns(p, "nil")
                /\ tables' = tables \cup {[name |-> name, bound |-> bound]}
    /\ UNCHANGED <<rowsPart, rowsFlat, childTableMap, op, arg, trx, doneOK,
                   ncalls, namer>>

(***************************************************************************)
(* InsertTransactionPartitionedDynamicCached, line 395: the Store.         *)
(***************************************************************************)
CacheStoreSkipped(p) ==
    /\ pc[p] = "store"
    /\ pc' = [pc EXCEPT ![p] = "insert"]
    /\ UNCHANGED <<backend, childTableMap, op, arg, trx, err, hist,
                   createCalls, doneOK, ncalls, namer>>

CacheStore(p) ==
    /\ pc[p] = "store"
    /\ childTableMap' = StoreTrue(childTableMap, CacheKey(trx[p].TrxDate))
    /\ pc' = [pc EXCEPT ![p] = "insert"]
    /\ hist' = [hist EXCEPT ![p].stored = TRUE]
    /\ UNCHANGED <<backend, op, arg, trx, err, createCalls, doneOK, ncalls,
                   namer>>

(***************************************************************************)
(* InsertTransactionPartitioned, lines 349-362: the INSERT ... RETURNING * *)
(* into the parent and the Scan of the returned row into trx.  The backend *)
(* routes the row by its trx_date to the child bound to that date and      *)
(* rejects it when there is none, or when the primary key is taken.        *)
(***************************************************************************)
InsertReturns(p, e) ==
    /\ pc' = [pc EXCEPT ![p] = "done"]
    /\ err' = [err EXCEPT ![p] = e]
    /\ hist' = [hist EXCEPT ![p].inserted = TRUE,
                            ![p].held = (RowsOnKey(rowsPart, trx[p].ID,
                                             DateParam(trx[p].TrxDate)) # {})]
    /\ doneOK' = IF op[p] = "cached" /\ e = "nil"
                 THEN doneOK \cup {DayOf(arg[p].date)} ELSE doneOK

QueryInsertPartitioned(p) ==
    /\ pc[p] = "insert"
    /\ LET row == RowOf(trx[p]) IN
          IF Routed(row.trx_date) = {}
          THEN /\ InsertReturns(p, "write_nopartition")
               /\ UNCHANGED <<rowsPart, trx>>
          ELSE IF PrimaryKeyTaken(rowsPart, row)
          THEN /\ InsertReturns(p, "write_pk")
               /\ UNCHANGED <<rowsPart, trx>>
          ELSE /\ InsertReturns(p, "nil")
               /\ rowsPart' = rowsPart \cup {row}
               /\ trx' = [trx EXCEPT ![p] = ScanRow(row)]
    /\ UNCHANGED <<tables, rowsFlat, childTableMap, op, arg, createCalls,
                   ncalls, namer>>

(***************************************************************************)
(* InsertTransactionWithoutPartition, lines 257-272: one INSERT into the   *)
(* flat table, rejected when the primary key (id, trx_date) is taken.      *)
(***************************************************************************)
Finish(p, o, a, r, e, held) ==
    /\ pc' = [pc EXCEPT ![p] = "done"]
    /\ op' = [op EXCEPT ![p] = o]
    /\ arg' = [arg EXCEPT ![p] = a]
    /\ trx' = [trx EXCEPT ![p] = r]
    /\ err' = [err EXCEPT ![p] = e]
    /\ hist' = [hist EXCEPT ![p] = [NoHist EXCEPT !.held = held]]
    /\ ncalls' = ncalls + 1

InsertTransactionWithoutPartition(p, r) ==
    /\ CanStart(p)
    /\ LET row == RowOf(r)
              a   == [NoArg EXCEPT !.date = r.TrxDate]
              h   == RowsOnKey(rowsFlat, r.ID, DateParam(r.TrxDate)) # {}
          IN  IF PrimaryKeyTaken(rowsFlat, row)
              THEN /\ Finish(p, "insertFlat", a, r, "write_pk", h)
                   /\ UNCHANGED rowsFlat
              ELSE /\ Finish(p, "insertFlat", a, ScanRow(row), "nil", h)
                   /\ rowsFlat' = rowsFlat \cup {row}
    /\ UNCHANGED <<tables, rowsPart, childTableMap, createCalls, doneOK, namer>>

(***************************************************************************)
(* FetchOneTransactionPartitioned / FetchOneTransactionWithoutPartition:   *)
(*   SELECT * ... WHERE id = $1 AND user_id = $2 AND trx_date = $3         *)
(*   ORDER BY trx_timestamp DESC LIMIT 1                                   *)
(* trx starts as &Transaction{}; each returned row is scanned into it.     *)
(***************************************************************************)
\* the fetch that leaves trx_date out of its WHERE clause
MatchingAnyDate(rows, id, userID, date) ==
    {x \in rows : x.id = id /\ x.user_id = userID}

Matching(rows, id, userID, date) ==
    {x \in rows : x.id = id /\ x.user_id = userID /\ x.trx_date = DateParam(date)}

\* the rows the query returns: the latest of the matching ones, if any
Selected(rows, id, userID, date) ==
    LET ms == Matching(rows, id, userID, date)
    IN  {x \in ms : \A z \in ms : z.trx_timestamp <= x.trx_timestamp}

FetchOne(p, o, rows, id, userID, date) ==
    /\ CanStart(p)
    /\ LET a   == [NoArg EXCEPT !.id = id, !.userID = userID, !.date = date]
              sel == Selected(rows, id, userID, date)
              h   == \E x \in RowsOnKey(rows, id, DateParam(date)) :
                         x.user_id = userID
          IN  IF sel = {} THEN Finish(p, o, a, ZeroTransaction, "nil", h)
              ELSE \E x \in sel : Finish(p, o, a, ScanRow(x), "nil", h)
    /\ UNCHANGED <<backend, childTableMap, createCalls, doneOK, namer>>

FetchOneTransactionWithoutPartition(p, id, userID, date) ==
    FetchOne(p, "fetchFlat", rowsFlat, id, userID, date)

FetchOneTransactionPartitioned(p, id, userID, date) ==
    FetchOne(p, "fetchPart", rowsPart, id, userID, date)

(***************************************************************************)
(* CheckPartitionChildTable, lines 314-345:                                *)
(*   SELECT to_regclass('<tableName>')                                     *)
(* to_regclass gives the relation of that name, or NULL when the catalog   *)
(* has none.  The row is scanned into a string, which fails on NULL; the   *)
(* string is then compared with tableName.                                 *)
(***************************************************************************)
ReadErrors == {"read_conn", "read_scan", "read_notfound"}

\* an answer taken from the cache instead of the catalog
ToRegclassFromCache(name) ==
    IF CacheHit(childTableMap, "isExist:" \o name) THEN <<name>> ELSE <<>>

\* the column of the returned row: <<relation>>, or <<>> for NULL
ToRegclass(name) == IF NameExists(name) THEN <<name>> ELSE <<>>

CheckPartitionChildTable(p, tableName) ==
    /\ CanStart(p)
    /\ \E fail \in BOOLEAN :
          LET a   == [NoArg EXCEPT !.name = tableName]
              res == ToRegclass(tableName)
              h   == tableName \in {tb.name : tb \in tables}
              e   == IF fail THEN "read_conn"
                     ELSE IF res = <<>> THEN "read_scan"
                     ELSE IF res[1] # tableName THEN "read_notfound"
                     ELSE "nil"
          IN  Finish(p, "check", a, ZeroTransaction, e, h)
    /\ UNCHANGED <<backend, childTableMap, createCalls, doneOK, namer>>

(***************************************************************************)
(* Out of band: an operator drops a child table, with the rows it holds.   *)
(***************************************************************************)
DropChildTable(tb) ==
    /\ tb \in tables
    /\ tables' = tables \ {tb}
    /\ rowsPart' = {x \in rowsPart : x.trx_date # tb.bound}
    /\ UNCHANGED <<rowsFlat, childTableMap, caller, history, ncalls, namer>>

(***************************************************************************)
(* The process crashes while calls are in flight and is started again:     *)
(* NewLogic gives the new process an empty childTableMap, the backend      *)
(* keeps what was committed.  op, arg and trx of a caller keep what it had *)
(* sent, for the retry.                                                    *)
(***************************************************************************)
Crash ==
    /\ \E p \in Procs : pc[p] \notin {"idle", "done"}
    /\ childTableMap' = [k \in {} |-> TRUE]
    /\ pc' = [p \in Procs |-> "idle"]
    /\ hist' = [p \in Procs |->
                  [NoHist EXCEPT !.cut = /\ pc[p] \in {"store", "insert"}
                                        /\ hist[p].created = "ok"]]
    /\ doneOK' = {}
    /\ UNCHANGED <<backend, op, arg, trx, err, createCalls, ncalls, namer>>

(***************************************************************************)
(* The seed step of README.md: for each day d of its range it runs         *)
(*   CREATE TABLE IF NOT EXISTS transaction_partition_y<year>_m<month>_d<day>*)
(*   PARTITION OF transactions_partitioned FOR VALUES IN ('<d::DATE>')     *)
(* with year, month and day the text of date_part, which is not padded.    *)
(***************************************************************************)
SeedTableName(date) ==
    "transaction_partition_y" \o Decimal(date[1]) \o "_m" \o Decimal(date[2])
        \o "_d" \o Decimal(date[3])

SeedDates == {BoundOf(t) : t \in TrxTimes}

SeedChildTable(date) ==
    /\ ~NameExists(SeedTableName(date))
    /\ Routed(date) = {}
    /\ tables' = tables \cup {[name |-> SeedTableName(date), bound |-> date]}
    /\ UNCHANGED <<rowsPart, rowsFlat, childTableMap, caller, history, ncalls,
                   namer>>

(***************************************************************************)
(* The namer applied to two timestamps.                                    *)
(***************************************************************************)
NameBoth ==
    /\ ~namer.called
    /\ namer' = [namer EXCEPT !.n1 = ChildTableName(namer.t1),
                              !.n2 = ChildTableName(namer.t2),
                              !.called = TRUE]
    /\ UNCHANGED <<backend, childTableMap, caller, history, ncalls>>

(***************************************************************************)
(* Specifications.                                                         *)
(***************************************************************************)
Records == {NewLog(id, t) : id \in IDs, t \in TrxTimes}

\* calls of the partition lifecycle: creation and the two dynamic strategies
Lifecycle(p) ==
    \/ \E t \in TrxTimes : CreateNewPartitionChildTable(p, t)
    \/ \E r \in Records : InsertTransactionPartitionedDynamic(p, r)
    \/ \E r \in Records : InsertTransactionPartitionedDynamicCached(p, r)

\* the backend calls and the cache store a call goes through
Steps(p) ==
    \/ ExecCreateLookup(p)
    \/ ExecCreateDefine(p)
    \/ CacheStore(p)
    \/ QueryInsertPartitioned(p)

Next == \E p \in Procs : Lifecycle(p) \/ Steps(p)

\* the partition lifecycle under concurrent callers, on a backend that holds
\* the parent table and no child table
Spec == Init /\ [][Next]_vars

\* the same with one caller: every call returns before the next one starts
NextSeq == Lifecycle(1) \/ Steps(1)

SpecSeq == Init /\ [][NextSeq]_vars

\* the record store: creation of child tables, the plain inserts, the fetches
NextStore ==
    \E p \in Procs :
        \/ \E t \in TrxTimes : CreateNewPartitionChildTable(p, t)
        \/ ExecCreateLookup(p)
        \/ ExecCreateDefine(p)
        \/ \E r \in Records : InsertTransactionPartitioned(p, r)
        \/ QueryInsertPartitioned(p)
        \/ \E r \in Records : InsertTransactionWithoutPartition(p, r)
        \/ \E id \in FetchIDs, t \in TrxTimes :
              FetchOneTransactionWithoutPartition(p, id, "1", t)
        \/ \E id \in FetchIDs, t \in TrxTimes :
              FetchOneTransactionPartitioned(p, id, "1", t)

SpecStore == Init /\ [][NextStore]_vars

\* the child tables that earlier creation calls for the days of TrxTimes left
CreatedTables ==
    {[name |-> ChildTableName(t), bound |-> BoundOf(t)] : t \in TrxTimes}

\* the records the callers send: one per TrxDate, each with its own Info
InfoOf(t) == IF t.off = 0 THEN "{iteration: 0}" ELSE "{iteration: 1}"

Transactions ==
    {[NewLog(id, t) EXCEPT !.Info = InfoOf(t)] : id \in IDs, t \in TrxTimes}

\* the dates the fetches ask for: one TrxDate per stored date
FetchTimes == {t \in TrxTimes : t.sec # 0}

\* the rows an earlier run left: those of the record of the earliest instant
EarlierRows ==
    {RowOf(r) : r \in {x \in Transactions : \A y \in Transactions :
                            Unix(x.TrxDate) <= Unix(y.TrxDate)}}

\* a backend with no child table and no row, or one on which an earlier run
\* created the child tables and stored its record in both tables
InitRecords ==
    /\ \/ tables = {} /\ rowsPart = {} /\ rowsFlat = {}
       \/ tables = CreatedTables /\ rowsPart = EarlierRows /\ rowsFlat = EarlierRows
    /\ childTableMap = [k \in {} |-> TRUE]
    /\ pc = [p \in Procs |-> "idle"]
    /\ op = [p \in Procs |-> "none"]
    /\ arg = [p \in Procs |-> NoArg]
    /\ trx = [p \in Procs |-> ZeroTransaction]
    /\ err = [p \in Procs |-> "nil"]
    /\ hist = [p \in Procs |-> NoHist]
    /\ createCalls = [all |-> [d \in Days |-> 0],
                      ok  |-> [p \in Procs |-> [d \in Days |-> 0]]]
    /\ doneOK = {}
    /\ ncalls = 0
    /\ namer = NoNamer

\* the four insertion strategies and the two fetches, under concurrent callers
NextRecords ==
    \E p \in Procs :
        \/ \E r \in Transactions : InsertTransactionWithoutPartition(p, r)
        \/ \E r \in Transactions : InsertTransactionPartitioned(p, r)
        \/ \E r \in Transactions : InsertTransactionPartitionedDynamic(p, r)
        \/ \E r \in Transactions : InsertTransactionPartitionedDynamicCached(p, r)
        \/ ExecCreateLookup(p)
        \/ ExecCreateDefine(p)
        \/ CacheStore(p)
        \/ QueryInsertPartitioned(p)
        \/ \E id \in IDs, t \in FetchTimes :
              FetchOneTransactionWithoutPartition(p, id, "1", t)
        \/ \E id \in IDs, t \in FetchTimes :
              FetchOneTransactionPartitioned(p, id, "1", t)

SpecRecords == InitRecords /\ [][NextRecords]_vars

\* the names CheckPartitionChildTable is asked about
CheckNames == {ChildTableName(t) : t \in TrxTimes}

\* cached inserts and catalog checks, with child tables dropped out of band
\* at any time
NextDrop ==
    \/ \E p \in Procs :
          \/ \E r \in Transactions : InsertTransactionPartitionedDynamicCached(p, r)
          \/ ExecCreateLookup(p)
          \/ ExecCreateDefine(p)
          \/ CacheStore(p)
          \/ QueryInsertPartitioned(p)
          \/ \E name \in CheckNames : CheckPartitionChildTable(p, name)
    \/ \E tb \in tables : DropChildTable(tb)

SpecDrop == Init /\ [][NextDrop]_vars

\* one caller's dynamic and cached inserts, in a process that can crash and
\* restart at any step of a call
NextCrash ==
    \/ \E r \in Transactions : InsertTransactionPartitionedDynamic(1, r)
    \/ \E r \in Transactions : InsertTransactionPartitionedDynamicCached(1, r)
    \/ Steps(1)
    \/ Crash

SpecCrash == Init /\ [][NextCrash]_vars

\* one caller sends a sequence of records, each through the dynamic or the
\* cached strategy
NextEquiv ==
    \/ \E r \in Transactions : InsertTransactionPartitionedDynamic(1, r)
    \/ \E r \in Transactions : InsertTransactionPartitionedDynamicCached(1, r)
    \/ Steps(1)

SpecEquiv == InitRecords /\ [][NextEquiv]_vars

\* concurrent callers that all use the cached strategy
NextCached ==
    \E p \in Procs :
        \/ \E r \in Records : InsertTransactionPartitionedDynamicCached(p, r)
        \/ Steps(p)

SpecCached == Init /\ [][NextCached]_vars

\* direct creation calls, with the seed step run against the backend at any
\* time
NextSeed ==
    \/ \E p \in Procs :
          \/ \E t \in TrxTimes : CreateNewPartitionChildTable(p, t)
          \/ ExecCreateLookup(p)
          \/ ExecCreateDefine(p)
    \/ \E date \in SeedDates : SeedChildTable(date)

SpecSeed == Init /\ [][NextSeed]_vars

\* the namer alone, on any two timestamps
InitName ==
    /\ tables = {}
    /\ rowsPart = {}
    /\ rowsFlat = {}
    /\ childTableMap = [k \in {} |-> TRUE]
    /\ pc = [p \in Procs |-> "idle"]
    /\ op = [p \in Procs |-> "none"]
    /\ arg = [p \in Procs |-> NoArg]
    /\ trx = [p \in Procs |-> ZeroTransaction]
    /\ err = [p \in Procs |-> "nil"]
    /\ hist = [p \in Procs |-> NoHist]
    /\ createCalls = [all |-> [d \in Days |-> 0],
                      ok  |-> [p \in Procs |-> [d \in Days |-> 0]]]
    /\ doneOK = {}
    /\ ncalls = 0
    /\ \E t1 \in NameTimes, t2 \in NameTimes :
          namer = [t1 |-> t1, t2 |-> t2, n1 |-> "", n2 |-> "", called |-> FALSE]

SpecName == InitName /\ [][NameBoth]_vars

(***************************************************************************)
(* Claims.                                                                 *)
(***************************************************************************)
\* the child tables bound to the UTC day of t
TablesOfDay(t) == Routed(BoundOf(t))

\* p has completed a direct creation call that was not cut by the backend
\* being unreachable
CreateDone(p) == op[p] = "create" /\ pc[p] = "done" /\ err[p] # "schema_conn"

\* C1: when callers invoke CreateNewPartitionChildTable concurrently for a
\* day that had no child table when they started, every call returns nil
\* and the backend ends with exactly one child table for that day.
C1_ConcurrentCreateAllSucceed ==
    \A p \in Procs :
        (CreateDone(p) /\ ~hist[p].pre) =>
            /\ err[p] = "nil"
            /\ Cardinality(TablesOfDay(arg[p].date)) = 1

\* C2: with calls made one after another, every CreateNewPartitionChildTable
\* call returns nil and leaves exactly one child table for its day, and a
\* call for a day that already has its child table leaves the set of child
\* tables unchanged.
C2_SequentialCreateIdempotent ==
    /\ [](\A p \in Procs :
            CreateDone(p) =>
                /\ err[p] = "nil"
                /\ Cardinality(TablesOfDay(arg[p].date)) = 1)
    /\ [][\A p \in Procs :
            (op[p] = "create" /\ hist[p].pre /\ pc[p] \in {"ddl", "define"})
                => tables' = tables]_vars

\* C2 witness: a second creation call for a day has returned nil
C2_Witness ==
    \E p \in Procs :
        CreateDone(p) /\ hist[p].pre /\ err[p] = "nil" /\ ncalls >= 2

\* C3: a cached insert that starts after a cached insert for the same day
\* has returned nil issues no creation call.
C3_NoCreationAfterSuccess ==
    \A p \in Procs :
        (op[p] = "cached" /\ hist[p].after) =>
            /\ pc[p] \notin {"ddl", "define", "store"}
            /\ hist[p].created = "none"

\* C3 witness: such a later call has run to its end
C3_Witness ==
    \E p \in Procs : op[p] = "cached" /\ hist[p].after /\ pc[p] = "done"

\* C4, as claimed: for every day the cached strategy issues at most one
\* creation call, whatever the callers and their interleaving.
C4_AtMostOneCreationCallPerDay ==
    \A d \in Days : createCalls.all[d] <= 1

\* C4, amended: for every day, the cached inserts of one caller issue at
\* most one creation call that returns nil.
C4_AtMostOneCreationPerCallerAndDay ==
    \A p \in Procs : \A d \in Days : createCalls.ok[p][d] <= 1

\* C4 witness: two callers have each had a creation call for the same day
\* return nil
C4_Witness ==
    \E d \in Days : \A p \in {1, 2} : createCalls.ok[p][d] = 1

\* C5: when the creation call of a cached insert fails, the insert returns
\* that error, issues no INSERT and stores nothing in the cache; the failing
\* step leaves cache and rows as they were; and a cached insert that misses
\* the cache goes to the creation call.
C5_FailedCreationLeavesCache ==
    /\ [](\A p \in Procs :
            (op[p] = "cached" /\ hist[p].created = "failed") =>
                /\ pc[p] = "done"
                /\ err[p] \in SchemaErrors
                /\ ~hist[p].stored
                /\ ~hist[p].inserted)
    /\ [][\A p \in Procs :
            /\ (op[p] = "cached" /\ hist[p].created = "none"
                    /\ hist'[p].created = "failed")
                  => (childTableMap' = childTableMap /\ rowsPart' = rowsPart)
            /\ (pc[p] \in {"idle", "done"} /\ pc'[p] \notin {"idle", "done"}
                    /\ op'[p] = "cached")
                  => ((pc'[p] = "ddl") <=>
                        ~CacheHit(childTableMap, CacheKey(arg'[p].date)))]_vars

\* C5 witness: a cached insert has returned the error of its creation call
\* and the cache still misses its day
C5_Witness ==
    \E p \in Procs :
        /\ op[p] = "cached" /\ pc[p] = "done" /\ hist[p].created = "failed"
        /\ ~CacheHit(childTableMap, CacheKey(arg[p].date))

\* C6: in InsertTransactionPartitionedDynamic, whenever the creation call
\* has returned nil, the insert that follows is not rejected for a missing
\* partition, whatever the time of day and the zone of TrxDate.
C6_DynamicInsertFindsPartition ==
    \A p \in Procs :
        (op[p] = "dynamic" /\ pc[p] = "done" /\ hist[p].created = "ok")
            => err[p] # "write_nopartition"

\* C7: a CreateNewPartitionChildTable call for a day whose child table the
\* backend already holds, made by the core or by the seed step, returns nil.
C7_PreExistenceIsNotAnError ==
    \A p \in Procs : (CreateDone(p) /\ hist[p].pre) => err[p] = "nil"

\* the civil date of the UTC calendar day that contains t: the day whose
\* midnight is at or before t and less than 86400 seconds before it
CivilDates ==
    {c \in (2020..2021) \X (1..12) \X (1..31) : c[3] <= DaysIn(c[1], c[2])}

UTCDayContaining(t) ==
    CHOOSE c \in CivilDates :
        /\ DaysFromCivil(c[1], c[2], c[3]) * 86400 <= Unix(t)
        /\ Unix(t) < (DaysFromCivil(c[1], c[2], c[3]) + 1) * 86400

NameOfDay(c) ==
    "transaction_partition_y" \o Pad4(c[1]) \o "_m" \o Pad2(c[2])
        \o "_d" \o Pad2(c[3])

\* C8: ChildTableName(t) is transaction_partition_y<YYYY>_m<MM>_d<DD> of the
\* UTC calendar day that contains t, in any zone; 2021-06-30T23:59:59Z gives
\* ..._y2021_m06_d30 and 2021-07-01T00:00:00Z gives ..._y2021_m07_d01.
C8_NameOfUTCDay ==
    namer.called =>
        /\ namer.n1 = NameOfDay(UTCDayContaining(namer.t1))
        /\ namer.n2 = NameOfDay(UTCDayContaining(namer.t2))
        /\ (namer.t1 = Time(2021, 6, 30, 86399, 0)
              => namer.n1 = "transaction_partition_y2021_m06_d30")
        /\ (namer.t1 = Time(2021, 7, 1, 0, 0)
              => namer.n1 = "transaction_partition_y2021_m07_d01")

\* C8 witness: the namer has been applied to a timestamp whose date in its
\* own zone is not its UTC date
C8_Witness ==
    /\ namer.called
    /\ namer.t1.off # 0
    /\ PgDateIn(namer.t1) # UTCDayContaining(namer.t1)

\* C9: two timestamps get the same name exactly when they fall on the same
\* UTC calendar day.
C9_SameNameIffSameDay ==
    namer.called =>
        ((namer.n1 = namer.n2) <=> (DayOf(namer.t1) = DayOf(namer.t2)))

\* C9 witness: two timestamps of different zones and local dates share a name
C9_Witness ==
    /\ namer.called
    /\ namer.n1 = namer.n2
    /\ namer.t1.off # namer.t2.off
    /\ PgDateIn(namer.t1) # PgDateIn(namer.t2)

\* C10: a fetch that matches no row returns an error, never the zero-valued
\* record with a nil error.
C10_FetchMissIsAnError ==
    \A p \in Procs :
        (op[p] \in {"fetchPart", "fetchFlat"} /\ pc[p] = "done")
            => ~(trx[p] = ZeroTransaction /\ err[p] = "nil")

(***************************************************************************)
(* The record store.                                                       *)
(***************************************************************************)
PartitionedInserts == {"insertPart", "dynamic", "cached"}

\* the table a call writes to or reads from
FamilyOf(o) == IF o \in {"insertFlat", "fetchFlat"} THEN "flat" ELSE "partitioned"

RowsOfFamily(f) == IF f = "flat" THEN rowsFlat ELSE rowsPart

\* an insert call of p has returned
InsertDone(p) ==
    /\ pc[p] = "done"
    /\ \/ op[p] = "insertFlat"
       \/ op[p] \in PartitionedInserts /\ hist[p].inserted

\* C11: in each table no two rows share (id, trx_date); an insert that finds
\* its key on a row of its table returns a write error, and one that returns
\* the key violation found it there; of the inserts sent for one key of one
\* table at most one returned nil; no row of a table is ever changed or lost.
C11_KeyIsUnique ==
    /\ [](/\ \A f \in {"flat", "partitioned"} : \A x, y \in RowsOfFamily(f) :
                (x.id = y.id /\ x.trx_date = y.trx_date) => x = y
          /\ \A p \in Procs :
                InsertDone(p) =>
                    /\ hist[p].held => err[p] \in WriteErrors
                    /\ err[p] = "write_pk" => hist[p].held
          /\ \A p, q \in Procs :
                (/\ p # q /\ InsertDone(p) /\ InsertDone(q)
                 /\ FamilyOf(op[p]) = FamilyOf(op[q])
                 /\ trx[p].ID = trx[q].ID
                 /\ DateParam(arg[p].date) = DateParam(arg[q].date))
                => ~(err[p] = "nil" /\ err[q] = "nil"))
    /\ [][rowsPart \subseteq rowsPart' /\ rowsFlat \subseteq rowsFlat']_vars

\* two callers sent different records on one key of the partitioned table: one
\* insert returned nil, the other the key violation
C11_Witness ==
    \E p, q \in Procs :
        /\ p # q /\ InsertDone(p) /\ InsertDone(q)
        /\ op[p] \in PartitionedInserts /\ op[q] \in PartitionedInserts
        /\ arg[p].date # arg[q].date
        /\ DateParam(arg[p].date) = DateParam(arg[q].date)
        /\ err[p] = "nil" /\ err[q] = "write_pk"

Fetches == {"fetchFlat", "fetchPart"}

\* the TrxDate a stored record comes back with: midnight UTC of its trx_date
DateOnly(t) == Time(t.y, t.m, t.d, 0, 0)

\* C12: a fetch that finds a row on (id, userID, trx_date) in its table
\* returns the record that was inserted on that key: the same ID, UserID,
\* Info and Status, and as TrxDate the calendar date of the TrxDate that was
\* sent, whatever other rows the table holds.
C12_FetchReturnsInserted ==
    \A p \in Procs : \A r \in Transactions :
        (/\ op[p] \in Fetches /\ pc[p] = "done" /\ hist[p].held
         /\ RowOf(r) \in RowsOfFamily(FamilyOf(op[p]))
         /\ arg[p].id = r.ID /\ arg[p].userID = r.UserID
         /\ DateParam(arg[p].date) = DateParam(r.TrxDate))
        => /\ err[p] = "nil"
           /\ trx[p].ID = r.ID /\ trx[p].UserID = r.UserID
           /\ trx[p].Info = r.Info /\ trx[p].Status = r.Status
           /\ trx[p].TrxDate = DateOnly(r.TrxDate)

\* a fetch from the partitioned table returned a record while the table held
\* a row on another key as well
C12_Witness ==
    \E p \in Procs :
        /\ op[p] = "fetchPart" /\ pc[p] = "done" /\ hist[p].held
        /\ trx[p] # ZeroTransaction
        /\ \E x \in rowsPart : x.trx_date # DateParam(arg[p].date)

\* C13: a call of InsertTransactionPartitioned goes straight to its INSERT;
\* no step of it changes the child tables or the cache, and when no child
\* table is bound to the trx_date of its record it returns a write error and
\* leaves the rows as they are.
C13_AssumeExistsOnlyInserts ==
    /\ [](\A p \in Procs :
            op[p] = "insertPart" =>
                /\ pc[p] \in {"insert", "done"}
                /\ hist[p].created = "none" /\ ~hist[p].stored)
    /\ [][\A p \in Procs :
            (op'[p] = "insertPart" /\ pc'[p] # pc[p]) =>
                /\ tables' = tables
                /\ childTableMap' = childTableMap
                /\ (pc[p] = "insert" /\ Routed(DateParam(trx[p].TrxDate)) = {})
                   => /\ err'[p] \in WriteErrors
                      /\ rowsPart' = rowsPart /\ rowsFlat' = rowsFlat]_vars

\* the call returned the write error for a day without child table, in a
\* process whose cache holds a key
C13_Witness ==
    \E p \in Procs :
        /\ op[p] = "insertPart" /\ pc[p] = "done"
        /\ err[p] = "write_nopartition"
        /\ Routed(DateParam(trx[p].TrxDate)) = {}
        /\ DOMAIN childTableMap # {}

(***************************************************************************)
(* The cache.                                                              *)
(***************************************************************************)
\* the keys the cache holds as true
KnownExisting == {k \in DOMAIN childTableMap : childTableMap[k] = TRUE}

\* C14: every key of the cache is held as true, never as false, and it is the
\* key of a day for which a creation call of a cached insert has returned nil.
C14_KnownOnlyAfterCreation ==
    \A k \in DOMAIN childTableMap :
        /\ childTableMap[k] = TRUE
        /\ \E t \in TrxTimes :
              /\ k = CacheKey(t)
              /\ \E p \in Procs : createCalls.ok[p][DayOf(t)] >= 1

\* the cache holds a key while a creation call of another caller has failed
C14_Witness ==
    /\ KnownExisting # {}
    /\ \E p \in Procs : op[p] = "cached" /\ hist[p].created = "failed"

\* C15: a cached insert that missed the cache stores its key only after its
\* creation call returned nil, and issues its INSERT only after the store;
\* when the creation call failed it does neither.
C15_CreateThenStoreThenInsert ==
    \A p \in Procs :
        (op[p] = "cached" /\ ~(hist[p].created = "none" /\ pc[p] \in {"insert", "done"}))
        => /\ pc[p] \in {"ddl", "define"}
                => hist[p].created = "none" /\ ~hist[p].stored /\ ~hist[p].inserted
           /\ pc[p] = "store"
                => hist[p].created = "ok" /\ ~hist[p].stored /\ ~hist[p].inserted
           /\ hist[p].stored
                => /\ hist[p].created = "ok"
                   /\ CacheKey(arg[p].date) \in KnownExisting
           /\ (pc[p] = "insert" \/ hist[p].inserted) => hist[p].stored
           /\ hist[p].created = "failed"
                => pc[p] = "done" /\ ~hist[p].stored /\ ~hist[p].inserted

\* a cached insert that missed the cache went through creation, store and
\* INSERT
C15_Witness ==
    \E p \in Procs :
        /\ op[p] = "cached" /\ pc[p] = "done"
        /\ hist[p].created = "ok" /\ hist[p].stored /\ hist[p].inserted

\* C16: a key of the cache stays in it with its value; the cache changes
\* only in the store of a cached insert, which adds that call's key as true;
\* a store of a key the cache already holds leaves the cache as it is.
C16_CacheOnlyGrows ==
    /\ [](\A k \in DOMAIN childTableMap : childTableMap[k] = TRUE)
    /\ [][/\ \A k \in DOMAIN childTableMap :
               k \in DOMAIN childTableMap' /\ childTableMap'[k] = childTableMap[k]
          /\ childTableMap' # childTableMap =>
               \E p \in Procs :
                   /\ op[p] = "cached" /\ pc[p] = "store" /\ pc'[p] = "insert"
                   /\ DOMAIN childTableMap' =
                         (DOMAIN childTableMap) \cup {CacheKey(arg[p].date)}
          /\ \A p \in Procs :
               (/\ pc[p] = "store" /\ pc'[p] = "insert"
                /\ CacheKey(arg[p].date) \in KnownExisting)
               => childTableMap' = childTableMap]_vars

\* two callers that both missed the cache have stored the same key
C16_Witness ==
    \E p, q \in Procs :
        /\ p # q /\ hist[p].stored /\ hist[q].stored
        /\ CacheKey(arg[p].date) = CacheKey(arg[q].date)
        /\ CacheKey(arg[p].date) \in KnownExisting

\* C20: every key the cache holds as true is the key of a child table that
\* exists, that is the only one of its name, and whose bound is the day its
\* name encodes; for the caller that stored the key that day is the UTC day
\* of its record's instant.
C20_KnownNamesExistingTable ==
    /\ \A k \in KnownExisting :
          \E tb \in tables :
              /\ k = "isExist:" \o tb.name
              /\ tb.name = NameOfDay(tb.bound)
              /\ \A other \in tables : other.name = tb.name => other = tb
    /\ \A p \in Procs :
          (op[p] = "cached" /\ hist[p].stored) =>
              \E tb \in tables :
                  /\ "isExist:" \o tb.name = CacheKey(arg[p].date)
                  /\ DaysFromCivil(tb.bound[1], tb.bound[2], tb.bound[3])
                        = DayOf(arg[p].date)

\* the cache holds the key of the UTC day of a record sent in another zone
C20_Witness ==
    \E p \in Procs :
        /\ op[p] = "cached" /\ hist[p].stored /\ arg[p].date.off # 0
        /\ CacheKey(arg[p].date) \in KnownExisting

(***************************************************************************)
(* A stale cache.                                                          *)
(***************************************************************************)
\* a cached insert that started on a stale entry: its key was in the cache
\* and no child table was bound to its day
StaleCall(p) == op[p] = "cached" /\ hist[p].stale

\* C17 as stated: a cached insert that starts on a stale entry makes no
\* creation call and returns a write error; while an entry is stale its
\* day's child table is not created again and the entry stays.
C17_StaleHitReturnsWriteError ==
    /\ [](\A p \in Procs :
            StaleCall(p) =>
                /\ hist[p].created = "none"
                /\ pc[p] = "done" => err[p] \in WriteErrors)
    /\ [][\A t \in TrxTimes :
            (CacheKey(t) \in KnownExisting /\ Routed(BoundOf(t)) = {})
            => /\ CacheKey(t) \in DOMAIN childTableMap'
               /\ childTableMap'[CacheKey(t)] = TRUE
               /\ \A tb \in tables' : tb.bound # BoundOf(t)]_vars

\* C17, amended: a cached insert that starts on a stale entry makes no
\* creation call and no store: it goes to its INSERT, which changes neither
\* tables nor cache and returns the write error whenever no child table is
\* bound to the trx_date of its row; no entry ever leaves the cache.
C17_StaleHitSkipsCreation ==
    /\ [](\A p \in Procs :
            StaleCall(p) =>
                /\ hist[p].created = "none" /\ ~hist[p].stored
                /\ pc[p] \in {"insert", "done"}
                /\ pc[p] = "done" => hist[p].inserted)
    /\ [][/\ \A k \in KnownExisting :
               k \in DOMAIN childTableMap' /\ childTableMap'[k] = TRUE
          /\ \A p \in Procs :
               (StaleCall(p) /\ pc[p] = "insert" /\ pc'[p] = "done")
               => /\ tables' = tables
                  /\ childTableMap' = childTableMap
                  /\ Routed(DateParam(trx[p].TrxDate)) = {}
                       => err'[p] = "write_nopartition" /\ rowsPart' = rowsPart]_vars

\* a cached insert that started on a stale entry returned the write error
C17_Witness ==
    \E p \in Procs :
        /\ StaleCall(p) /\ pc[p] = "done"
        /\ err[p] = "write_nopartition"
        /\ CacheKey(arg[p].date) \in KnownExisting
        /\ Routed(BoundOf(arg[p].date)) = {}

(***************************************************************************)
(* The catalog check.                                                      *)
(***************************************************************************)
\* caller p makes a one-statement call in this step
CallsNow(p, o) ==
    /\ op'[p] = o /\ pc'[p] = "done" /\ ncalls' = ncalls + 1
    /\ \A q \in Procs \ {p} :
          <<pc[q], op[q], arg[q], trx[q], err[q]>>
            = <<pc'[q], op'[q], arg'[q], trx'[q], err'[q]>>

\* C19: a check that reached the backend returned nil exactly when the
\* catalog held a table of that name at the time of the call, and an error
\* otherwise, whatever the cache holds; the call changes neither tables, nor
\* rows, nor cache.
C19_CheckReadsTheCatalog ==
    /\ [](\A p \in Procs :
            (op[p] = "check" /\ pc[p] = "done" /\ err[p] # "read_conn") =>
                /\ hist[p].held => err[p] = "nil"
                /\ ~hist[p].held => err[p] \in ReadErrors)
    /\ [][\A p \in Procs :
            CallsNow(p, "check") =>
                /\ tables' = tables
                /\ rowsPart' = rowsPart /\ rowsFlat' = rowsFlat
                /\ childTableMap' = childTableMap]_vars

\* the check returned an error for a name whose key the cache holds as true
C19_Witness ==
    \E p \in Procs :
        /\ op[p] = "check" /\ pc[p] = "done" /\ err[p] = "read_scan"
        /\ ("isExist:" \o arg[p].name) \in KnownExisting

(***************************************************************************)
(* Crash and retry.                                                        *)
(***************************************************************************)
\* C18: when a crash has cut a call between its creation call's success and
\* its INSERT, the backend holds the child table of the call's day; the same
\* call made again in the new process, once it has reached the backend and
\* returned, has returned nil and the record is stored exactly once.
C18_RetryAfterCrashSucceeds ==
    \A p \in Procs :
        /\ hist[p].cut => NameExists(ChildTableName(arg[p].date))
        /\ (hist[p].retry /\ pc[p] = "done" /\ err[p] # "schema_conn")
           => /\ err[p] = "nil"
              /\ Cardinality(RowsOnKey(rowsPart, trx[p].ID,
                                        DateParam(arg[p].date))) = 1

(***************************************************************************)
(* The cached strategy against the dynamic one.                            *)
(***************************************************************************)
DynamicInserts == {"dynamic", "cached"}

\* the child table a call's creation call asks for
TableOfCall(p) ==
    [name |-> ChildTableName(arg[p].date), bound |-> BoundOf(arg[p].date)]

\* what the call returns when its creation call does not fail, given the
\* backend it leaves: the INSERT's answer
ResultOfCall(p) ==
    IF Routed(DateParam(arg[p].date)) = {} THEN "write_nopartition"
    ELSE IF hist[p].held THEN "write_pk"
    ELSE "nil"

\* C21: with one caller sending records in sequence, no table dropped and
\* the call's creation call not failing, a call has the same outcome
\* whichever of the two strategies runs it: the child table of its day
\* exists when it returns, its result is the answer of the INSERT on that
\* backend, its steps add nothing to the child tables but the table of its
\* day, and nothing to the rows but its row, added exactly when it returns
\* nil.  The outcome is a function of the backend and the record alone, so
\* two runs of one sequence agree on every result, on tables and on rows.
C21_CachedAsDynamic ==
    /\ [](\A p \in Procs :
            (/\ op[p] \in DynamicInserts /\ pc[p] = "done"
             /\ hist[p].created # "failed")
            => /\ TableOfCall(p) \in tables
               /\ hist[p].inserted
               /\ err[p] = ResultOfCall(p))
    /\ [][\A p \in Procs :
            (op[p] \in DynamicInserts /\ pc[p] \notin {"idle", "done"}
             /\ pc'[p] # pc[p])
            => /\ tables \subseteq tables'
               /\ tables' \subseteq tables \cup {TableOfCall(p)}
               /\ rowsFlat' = rowsFlat
               /\ rowsPart' = IF pc'[p] = "done" /\ hist'[p].inserted
                                 /\ err'[p] = "nil"
                              THEN rowsPart \cup {RowOf(trx[p])}
                              ELSE rowsPart
               /\ (pc'[p] = "done" /\ err'[p] = "nil")
                  => RowOf(trx[p]) \notin rowsPart]_vars

\* a cached insert that hit the cache has returned nil, after an insert of
\* the same caller
C21_Witness ==
    \E p \in Procs :
        /\ op[p] = "cached" /\ pc[p] = "done" /\ err[p] = "nil"
        /\ hist[p].created = "none" /\ hist[p].inserted
        /\ TableOfCall(p) \in tables

(***************************************************************************)
(* The frame of a cached insert.                                           *)
(***************************************************************************)
\* the cached insert of caller p takes a step
CachedStep(p) == op'[p] = "cached" /\ pc'[p] # pc[p]

\* C22: a step of a cached insert for a record of day d changes no cache
\* entry but the one of d's key and no child table but the one of d's name;
\* the keys, and the table names, of two calls are equal exactly when
\* their UTC days are; and a call that hit the cache did so after a creation
\* call for its own day returned nil to a cached insert.
C22_OtherDaysUntouched ==
    /\ [](\A p \in Procs :
            op[p] = "cached" =>
                /\ \A q \in Procs :
                      op[q] = "cached" =>
                          /\ (CacheKey(arg[p].date) = CacheKey(arg[q].date))
                                <=> (DayOf(arg[p].date) = DayOf(arg[q].date))
                          /\ (ChildTableName(arg[p].date) = ChildTableName(arg[q].date))
                                <=> (DayOf(arg[p].date) = DayOf(arg[q].date))
                /\ (hist[p].created = "none" /\ pc[p] \in {"insert", "done"})
                   => \E q \in Procs : createCalls.ok[q][DayOf(arg[p].date)] >= 1)
    /\ [][\A p \in Procs :
            CachedStep(p) =>
                /\ \A k \in (DOMAIN childTableMap) \cup (DOMAIN childTableMap') :
                      k # CacheKey(arg'[p].date) =>
                          /\ k \in DOMAIN childTableMap
                          /\ k \in DOMAIN childTableMap'
                          /\ childTableMap'[k] = childTableMap[k]
                /\ \A tb \in tables \cup tables' :
                      tb.name # ChildTableName(arg'[p].date)
                      => (tb \in tables /\ tb \in tables')]_vars

\* a cached insert for one day has stored its key while the cache held the
\* key of another day, and a child table of another day exists
C22_Witness ==
    \E p \in Procs :
        /\ op[p] = "cached" /\ hist[p].stored
        /\ \E k \in KnownExisting : k # CacheKey(arg[p].date)
        /\ \E tb \in tables : tb.name # ChildTableName(arg[p].date)

=============================================================================
